---- MODULE Spec2Model ----
(***************************************************************************)
(* Contacts backend (src/main.py, src/dataModels.py, src/classes/*.py):    *)
(* the identifier generator, the contact, e-mail and message request       *)
(* handlers and the gatherEmailAddresses background task, over a document  *)
(* store with the collections users, emails and messages.                  *)
(*                                                                         *)
(* Field widths are scaled: the identifier keeps its layout (timestamp,    *)
(* random, counter, big-endian) with CounterBits / RandBits bits instead   *)
(* of 24 / 40, and the clock runs over 0..MaxTime.                         *)
(***************************************************************************)
EXTENDS Integers, Sequences, FiniteSets, TLC

VARIABLES
    _counter,             \* main.py:30  module counter of generate_id
    now,                  \* int(time.time()), seconds
    issued,               \* history: one entry per generate_id call of SpecId
    user_collection,      \* dbClient["users"]
    emails_Collection,    \* dbClient["emails"]
    messages_collection,  \* dbClient["messages"]
    proc,                 \* the requests in flight, one per slot, each with
                          \* its response and the state of its background task
    nreq                  \* number of requests accepted so far

vars == <<_counter, now, issued, user_collection, emails_Collection,
          messages_collection, proc, nreq>>

----------------------------------------------------------------------------
(* Bounds *)

CounterBits == 2
RandBits == 1
MaxTime == 1
MaxCalls == 5

CounterMod == 2 ^ CounterBits     \* 0xFFFFFF + 1 in the source
RandMod == 2 ^ RandBits           \* 2^40 in the source
TimeMod == MaxTime + 1            \* the clock stays inside the 4-byte field

----------------------------------------------------------------------------
(* generate_id, main.py:29-60 *)

\* id_bytes: timestamp, then random, then counter, big-endian; the hex
\* string of a fixed-length big-endian value orders as the value does.
PackBadOrder(timestamp, random_bytes, counter) ==
    (counter * RandMod + random_bytes) * TimeMod + timestamp

Pack(timestamp, random_bytes, counter) ==
    (timestamp * RandMod + random_bytes) * CounterMod + counter

TimestampOf(id) == id \div (RandMod * CounterMod)
RandomOf(id) == (id \div CounterMod) % RandMod
CounterOf(id) == id % CounterMod

NextCounterStuck(c) == c

NextCounterNoWrap(c) == c + 1

\* _counter = (_counter + 1) & 0xFFFFFF
NextCounter(c) == (c + 1) % CounterMod

RandomBits == 0 .. RandMod - 1

\* The identifier returned and the counter left behind.
generate_id(c, timestamp, random_bytes) ==
    [id |-> Pack(timestamp, random_bytes, c), counter |-> NextCounter(c)]

----------------------------------------------------------------------------
(* Strings: a string is a sequence of one-character strings.               *)

LowerCase == <<"a", "b", "c", "d", "e", "f", "g", "h", "i", "j", "k", "l", "m",
               "n", "o", "p", "q", "r", "s", "t", "u", "v", "w", "x", "y", "z">>
UpperCase == <<"A", "B", "C", "D", "E", "F", "G", "H", "I", "J", "K", "L", "M",
               "N", "O", "P", "Q", "R", "S", "T", "U", "V", "W", "X", "Y", "Z">>
Digits == {"0", "1", "2", "3", "4", "5", "6", "7", "8", "9"}
Whitespace == {" ", "\t", "\n"}

Range(f) == {f[i] : i \in DOMAIN f}
AsciiLetters == Range(LowerCase) \cup Range(UpperCase)

isalpha_or_digit(ch) == ch \in AsciiLetters \cup Digits
isdigit_or_letter(ch) == ch \in AsciiLetters \cup Digits

\* str.isalpha() / str.isdigit() on the characters the requests use
isalpha(ch) == ch \in AsciiLetters
isdigit(ch) == ch \in Digits

\* str.lower()
LowerChar(ch) ==
    IF \E i \in DOMAIN UpperCase : UpperCase[i] = ch
    THEN LowerCase[CHOOSE i \in DOMAIN UpperCase : UpperCase[i] = ch]
    ELSE ch
lower(s) == [i \in DOMAIN s |-> LowerChar(s[i])]

\* str.strip(): drop leading and trailing whitespace
strip(s) ==
    LET keep == {i \in DOMAIN s : s[i] \notin Whitespace} IN
      IF keep = {} THEN <<>>
      ELSE LET lo == CHOOSE i \in keep : \A j \in keep : i <= j
               hi == CHOOSE i \in keep : \A j \in keep : j <= i
           IN SubSeq(s, lo, hi)

AllIn(s, chars) == \A i \in DOMAIN s : s[i] \in chars

----------------------------------------------------------------------------
(* emailaddress, classes/emails.py:20-38 *)

LocalChars == AsciiLetters \cup Digits \cup {".", "_", "%", "+", "-"}
DomainChars == AsciiLetters \cup Digits \cup {".", "-"}

EMAIL_PATTERN_any(s) == TRUE

\* EMAIL_PATTERN  ^[a-zA-Z0-9._%+-]+@[a-zA-Z0-9.-]+\.[a-zA-Z]{2,}$
EMAIL_PATTERN(s) ==
    \E at \in DOMAIN s : \E dot \in DOMAIN s :
        /\ s[at] = "@"
        /\ at > 1
        /\ AllIn(SubSeq(s, 1, at - 1), LocalChars)
        /\ dot > at + 1
        /\ AllIn(SubSeq(s, at + 1, dot - 1), DomainChars)
        /\ s[dot] = "."
        /\ Len(s) - dot >= 2
        /\ AllIn(SubSeq(s, dot + 1, Len(s)), AsciiLetters)

\* emailaddress(address): the normalised address, or the ValueError
emailaddress(address) ==
    IF address = <<>>
    THEN [ok |-> FALSE, error |-> "Email address cannot be empty", address |-> <<>>]
    ELSE LET a == strip(lower(address)) IN
           IF EMAIL_PATTERN(a)
           THEN [ok |-> TRUE, error |-> "", address |-> a]
           ELSE [ok |-> FALSE, error |-> "Invalid email address format", address |-> a]

----------------------------------------------------------------------------
(* Contact, dataModels.py:44-113.  A request body is a record               *)
(* [first, last, emails, phone]; a name left out of the JSON is Missing, a  *)
(* list left out is the empty list (its default).                          *)
(* An item of emails is [form |-> "str" | "dict", address, type].           *)

Missing == <<"<missing>">>

NoError == [field |-> "", message |-> ""]
FieldError(field, message) == [field |-> field, message |-> message]

\* validate_name: the cleaned value or the error
validate_name(field, value) ==
    IF value = Missing
    THEN [ok |-> FALSE, value |-> <<>>, error |-> FieldError(field, "Field required")]
    ELSE LET cleaned == strip(value) IN
      IF cleaned = <<>>
      THEN [ok |-> FALSE, value |-> cleaned,
            error |-> FieldError(field, "Name cannot be empty")]
      ELSE IF ~ \A i \in DOMAIN cleaned :
                   isalpha(cleaned[i]) \/ cleaned[i] \in {" ", "-", "'"}
      THEN [ok |-> FALSE, value |-> cleaned,
            error |-> FieldError(field,
                "Name must only contain letters, spaces, hyphens, or apostrophes")]
      ELSE [ok |-> TRUE, value |-> cleaned, error |-> NoError]

\* One item of the emails list: kept, dropped, or the ValueError.
validate_email_item(item) ==
    IF item.form = "str"
    THEN LET cleaned == strip(item.address) IN
           IF cleaned = <<>> THEN [ok |-> TRUE, keep |-> FALSE, email |-> item]
           ELSE LET v == emailaddress(cleaned) IN
                  [ok |-> v.ok, keep |-> v.ok,
                   email |-> [address |-> v.address, type |-> "home"]]
    ELSE LET v == emailaddress(item.address) IN
           [ok |-> v.ok, keep |-> v.ok,
            email |-> [address |-> item.address, type |-> item.type]]

RECURSIVE validate_emails_from(_, _)
validate_emails_from(value, acc) ==
    IF value = <<>> THEN [ok |-> TRUE, value |-> acc, error |-> NoError]
    ELSE LET r == validate_email_item(Head(value)) IN
           IF ~r.ok
           THEN [ok |-> FALSE, value |-> acc,
                 error |-> FieldError("emails", "Invalid email address")]
           ELSE validate_emails_from(Tail(value),
                    IF r.keep THEN Append(acc, r.email) ELSE acc)

\* validate_emails (mode='before'); an empty list, like a field left out
\* (default []), gives []
validate_emails(value) == validate_emails_from(value, <<>>)

RECURSIVE validate_phone_from(_, _)
validate_phone_from(value, acc) ==
    IF value = <<>> THEN [ok |-> TRUE, value |-> acc, error |-> NoError]
    ELSE LET cleaned == strip(Head(value)) IN
           IF cleaned # <<>> /\ ~ \A i \in DOMAIN cleaned :
                   isdigit(cleaned[i]) \/ cleaned[i] \in {"-", "(", ")", " "}
           THEN [ok |-> FALSE, value |-> acc,
                 error |-> FieldError("phone",
                    "Phone number must only contain digits, spaces, hyphens, or parentheses")]
           ELSE validate_phone_from(Tail(value),
                    IF cleaned # <<>> THEN Append(acc, cleaned) ELSE acc)

\* validate_phone (mode='before'); a field left out takes the default []
validate_phone(value) == validate_phone_from(value, <<>>)

\* Contact(**body): every field is validated and every error collected,
\* in field order.
Contact(body) ==
    LET f == validate_name("first", body.first)
        l == validate_name("last", body.last)
        e == validate_emails(body.emails)
        ph == validate_phone(body.phone)
        all == <<f, l, e, ph>>
        bad == SelectSeq(all, LAMBDA r : ~r.ok)
    IN [ok |-> bad = <<>>,
        errors |-> [i \in DOMAIN bad |-> bad[i].error],
        first |-> f.value, last |-> l.value, emails |-> e.value, phone |-> ph.value]

----------------------------------------------------------------------------
(* The document store.  A collection is the sequence of its documents in   *)
(* insertion order; _id is unique within a collection.                     *)

\* The n of find({}).to_list(n): 100 in main.py:285-286 and 265, scaled to
\* the most documents the requests of Spec store in one collection
ToListLimit == 4

HasId(coll, id) == \E i \in DOMAIN coll : coll[i]._id = id

\* find({}).to_list(n)
to_list(coll, n) == SubSeq(coll, 1, IF Len(coll) < n THEN Len(coll) ELSE n)

insert_one_dropped(coll, doc) == [ok |-> TRUE, coll |-> coll]

\* insert_one: DuplicateKeyError when the _id is taken
insert_one(coll, doc) ==
    IF HasId(coll, doc._id) THEN [ok |-> FALSE, coll |-> coll]
    ELSE [ok |-> TRUE, coll |-> Append(coll, doc)]

\* insert_many (ordered): documents go in one by one up to the first
\* duplicate _id, which raises BulkWriteError
RECURSIVE insert_many(_, _)
insert_many(coll, docs) ==
    IF docs = <<>> THEN [ok |-> TRUE, coll |-> coll]
    ELSE IF HasId(coll, Head(docs)._id) THEN [ok |-> FALSE, coll |-> coll]
    ELSE insert_many(Append(coll, Head(docs)), Tail(docs))

\* An identifier as a request carries it (a path parameter): the hex
\* string of a 12-byte value, or a string that is no such thing.
HexId(v) == [kind |-> "hex", v |-> v]
ShortId == [kind |-> "short", v |-> -1]          \* "invalid_id"
NonHexId == [kind |-> "nonhex24", v |-> -1]      \* 24 characters, not hex
NoPath == [kind |-> "none", v |-> -1]

Matches_never(doc, contact_id) == FALSE

\* {"_id": contact_id} against a stored document
Matches(doc, contact_id) == contact_id.kind = "hex" /\ contact_id.v = doc._id

Matching(coll, contact_id) == {i \in DOMAIN coll : Matches(coll[i], contact_id)}

FirstMatch(coll, contact_id) ==
    CHOOSE i \in Matching(coll, contact_id) :
        \A j \in Matching(coll, contact_id) : i <= j

\* update_one(filter, {"$set": fields}): set on the first match
update_one(coll, contact_id, fields) ==
    IF Matching(coll, contact_id) = {} THEN [matched_count |-> 0, coll |-> coll]
    ELSE LET k == FirstMatch(coll, contact_id) IN
           [matched_count |-> 1,
            coll |-> [coll EXCEPT ![k] =
                        [f \in DOMAIN coll[k] |->
                            IF f \in DOMAIN fields THEN fields[f] ELSE coll[k][f]]]]

delete_one_first(coll, contact_id) ==
    IF coll = <<>> THEN [deleted_count |-> 0, coll |-> coll]
    ELSE [deleted_count |-> 1, coll |-> Tail(coll)]

\* delete_one(filter): remove the first match
delete_one(coll, contact_id) ==
    IF Matching(coll, contact_id) = {} THEN [deleted_count |-> 0, coll |-> coll]
    ELSE LET k == FirstMatch(coll, contact_id) IN
           [deleted_count |-> 1,
            coll |-> SubSeq(coll, 1, k - 1) \o SubSeq(coll, k + 1, Len(coll))]

----------------------------------------------------------------------------
(* Requests in flight and responses *)

MaxProcs == 2
MaxRequests == 2

Procs == 1 .. MaxProcs

\* What a request asked for and what its handler did: the identifier it
\* named, whether a stored document matched it, what raised, and for a
\* send_email_message call the email and body it carried, its is_draft, the
\* calls of send_email it made and the records it inserted
NoReq ==
    [contact_id |-> NoPath, matched |-> FALSE, raised |-> "none",
     email |-> Missing, body |-> Missing, is_draft |-> FALSE,
     sends |-> 0, inserts |-> 0]

NoMessage ==
    [type |-> "", direction |-> "sent", recipient |-> <<>>, subject |-> <<>>,
     body |-> <<>>, status |-> "", timestamp |-> "None",
     delivered_at |-> "None", error_message |-> "None", metadata |-> "None"]

NoResult == [success |-> FALSE, provider |-> "None", error |-> "None"]

NoResponse ==
    [op |-> "none", status |-> 200, error |-> "", message |-> "",
     details |-> <<>>, id |-> NoPath, task |-> FALSE, req |-> NoReq]

IdleProc ==
    [pc |-> "idle", op |-> "none", resp |-> NoResponse, sent |-> FALSE,
     users_seen |-> <<>>, emails_seen |-> <<>>, task_outcome |-> "none",
     message_id |-> NoPath,
     message_data |-> [subject |-> Missing, body |-> Missing,
                       recipient |-> Missing],
     message |-> NoMessage, result |-> NoResult, req |-> NoReq, request |-> 0]

\* return {...}: a 200 response with the handler's dict
Return(op, error, message, id, req) ==
    [NoResponse EXCEPT !.op = op, !.error = error, !.message = message,
                       !.id = id, !.req = req]

\* An exception that leaves the handler: the server answers 500
Unhandled(op, req) ==
    [NoResponse EXCEPT !.op = op, !.status = 500,
                       !.error = "Internal Server Error", !.req = req]

StoreInit ==
    /\ user_collection = <<>>
    /\ emails_Collection = <<>>
    /\ messages_collection = <<>>
    /\ proc = [p \in Procs |-> IdleProc]
    /\ nreq = 0

StoreUnchanged ==
    UNCHANGED <<user_collection, emails_Collection, messages_collection,
                proc, nreq>>

----------------------------------------------------------------------------
(* SpecId: one process calling generate_id while the clock advances *)

InitId ==
    /\ _counter \in 0 .. CounterMod - 1      \* random.randint(0, 0xFFFFFF)
    /\ now = 0
    /\ issued = <<>>
    /\ StoreInit

Tick ==
    /\ now < MaxTime
    /\ now' = now + 1
    /\ UNCHANGED <<_counter, issued>>
    /\ StoreUnchanged

CallGenerateId ==
    /\ Len(issued) < MaxCalls
    /\ \E r \in RandomBits :
         LET g == generate_id(_counter, now, r) IN
           /\ _counter' = g.counter
           /\ issued' = Append(issued, [id |-> g.id, time |-> now,
                                        random |-> r, counter |-> _counter])
    /\ UNCHANGED now
    /\ StoreUnchanged

NextId == Tick \/ CallGenerateId

SpecId == InitId /\ [][NextId]_vars

Calls == 1 .. Len(issued)

----------------------------------------------------------------------------
(* C1 *)

\* C1 (as claimed): any two calls of generate_id in one process return
\* different identifiers, whatever the number of calls and their timing.
C1_AllIdsDistinct ==
    \A i, j \in Calls : i # j => issued[i].id # issued[j].id

\* C1 (amended): two calls whose positions in the call sequence differ by
\* a number that is not a multiple of the counter period (2^24) return
\* different identifiers.
C1_DistinctWithinCounterPeriod ==
    \A i, j \in Calls :
        (j - i) % CounterMod # 0 => issued[i].id # issued[j].id

\* Two calls in the same second with the same random value, told apart by
\* the counter alone.
C1_Witness ==
    \E i, j \in Calls :
        /\ i < j
        /\ issued[i].time = issued[j].time
        /\ issued[i].random = issued[j].random
        /\ issued[i].id # issued[j].id

----------------------------------------------------------------------------
(* C2 *)

\* C2 (as claimed): generate_id is monotonic: a later call returns an
\* identifier strictly greater than every identifier returned earlier.
C2_Monotonic ==
    \A i, j \in Calls : i < j => issued[i].id < issued[j].id

\* C2 (amended): an identifier compares strictly greater than every
\* identifier returned by a call made in an earlier clock second.
C2_LaterSecondGreater ==
    \A i, j \in Calls :
        issued[i].time < issued[j].time => issued[i].id < issued[j].id

\* A later second whose call drew a smaller random value and a wrapped
\* counter, and still compares greater.
C2_Witness ==
    \E i, j \in Calls :
        /\ issued[i].time < issued[j].time
        /\ issued[j].random < issued[i].random
        /\ issued[j].counter < issued[i].counter
        /\ issued[i].id < issued[j].id

----------------------------------------------------------------------------
(* C3 *)

\* C3: every identifier returned holds, from the most significant end, the
\* time of the call, a random value of the random field's width and the
\* counter as it stood before the call, and nothing else; the module
\* counter stays inside the counter field's range and the counter fields
\* of consecutive calls differ by one modulo the counter period.
C3_Format ==
    /\ _counter \in 0 .. CounterMod - 1
    /\ \A i \in Calls :
         /\ issued[i].id \in 0 .. TimeMod * RandMod * CounterMod - 1
         /\ TimestampOf(issued[i].id) = issued[i].time
         /\ RandomOf(issued[i].id) = issued[i].random
         /\ CounterOf(issued[i].id) = issued[i].counter
    /\ \A i \in Calls :
         i + 1 \in Calls =>
            CounterOf(issued[i + 1].id) = (CounterOf(issued[i].id) + 1) % CounterMod

\* The counter field wrapped from its largest value to zero.
C3_Witness ==
    \E i \in Calls :
        /\ i + 1 \in Calls
        /\ CounterOf(issued[i].id) = CounterMod - 1
        /\ CounterOf(issued[i + 1].id) = 0

----------------------------------------------------------------------------
(* Request inputs *)

AddrA == <<"a", "@", "b", ".", "c", "d">>
AddrAUpper == <<"A", "@", "b", ".", "c", "d", " ">>

AsString(address) == [form |-> "str", address |-> address, type |-> ""]
AsDict(address) == [form |-> "dict", address |-> address, type |-> "work"]

ValidBodies ==
    { [first |-> <<"A", "l">>, last |-> <<"P", "o">>,
       emails |-> <<AsString(AddrA)>>, phone |-> <<>>],
      [first |-> <<" ", "B", "o">>, last |-> <<"P", "o">>,
       emails |-> <<AsDict(AddrAUpper), AsString(AddrA)>>,
       phone |-> << <<"1", "-", "2">> >>] }

InvalidBodies ==
    { [first |-> <<"A", "1">>, last |-> <<" ">>, emails |-> <<>>, phone |-> <<>>],
      [first |-> <<"A", "l">>, last |-> Missing,
       emails |-> <<AsString(<<"b", "a", "d">>)>>, phone |-> << <<"x">> >>] }

Bodies == ValidBodies \cup InvalidBodies

\* A contact with as many e-mails as the counter of generate_id has values
ManyEmailsBody ==
    [first |-> <<"A", "l">>, last |-> <<"P", "o">>,
     emails |-> [i \in 1 .. CounterMod |-> AsString(AddrA)], phone |-> <<>>]

IdValues == 0 .. TimeMod * RandMod * CounterMod - 1

\* A well-formed identifier no stored contact carries
UnknownId == CHOOSE v \in IdValues : ~HasId(user_collection, v)

ContactIds ==
    {HexId(user_collection[i]._id) : i \in DOMAIN user_collection}
        \cup {HexId(UnknownId), ShortId, NonHexId}

\* The module counter after k more calls of generate_id
RECURSIVE Advance(_, _)
Advance(c, k) == IF k = 0 THEN c ELSE Advance(generate_id(c, 0, 0).counter, k - 1)

gen_ids_repeated(c, timestamp, rs) ==
    [ids |-> [i \in 1 .. Len(rs) |-> generate_id(c, timestamp, rs[1]).id],
     counter |-> Advance(c, Len(rs))]

\* Successive generate_id calls, one per random draw
gen_ids(c, timestamp, rs) ==
    [ids |-> [i \in 1 .. Len(rs) |->
                generate_id(Advance(c, i - 1), timestamp, rs[i]).id],
     counter |-> Advance(c, Len(rs))]

\* Contact(**body) of every body the requests carry
Validated == [body \in Bodies \cup {ManyEmailsBody} |-> Contact(body)]

----------------------------------------------------------------------------
(* validation_exception_handler, main.py:66-78 *)

validation_exception_handler_ok(op, errors) ==
    [NoResponse EXCEPT !.op = op, !.status = 200, !.error = "Validation failed",
        !.details = [i \in DOMAIN errors |->
                        [field |-> errors[i].field, message |-> errors[i].message]]]

validation_exception_handler(op, errors) ==
    [NoResponse EXCEPT !.op = op, !.status = 422, !.error = "Validation failed",
        !.details = [i \in DOMAIN errors |->
                        [field |-> errors[i].field, message |-> errors[i].message]]]

----------------------------------------------------------------------------
(* Handlers.  A handler with one store operation runs as one step; its     *)
(* response is sent in a step of its own, and the background tasks it      *)
(* scheduled run after that.                                               *)

\* background_tasks.add_task(gatherEmailAddresses)
add_task(resp) == [resp EXCEPT !.task = TRUE]

\* The handler returned: the response is ready to be sent.
ReturnedInline(op, resp) ==
    [IdleProc EXCEPT !.pc = IF resp.task THEN "g_users" ELSE "respond",
                     !.op = op, !.resp = resp]

Returned(op, resp) == [IdleProc EXCEPT !.pc = "respond", !.op = op, !.resp = resp]

\* A request takes the first free slot (which slot is of no consequence).
Accept(p) ==
    /\ proc[p].pc = "idle"
    /\ \A q \in 1 .. p - 1 : proc[q].pc # "idle"
    /\ nreq < MaxRequests
    /\ nreq' = nreq + 1

\* main.py:151-165  contact_dict with the identifiers filled in
contact_dict(contact, id, email_ids) ==
    [_id |-> id, first |-> contact.first, last |-> contact.last,
     emails |-> [i \in DOMAIN contact.emails |->
                    [_id |-> email_ids[i], _contact_id |-> id,
                     address |-> contact.emails[i].address,
                     type |-> contact.emails[i].type]],
     phone |-> contact.phone]

\* POST /contacts, main.py:141-180
createContact(p, body) ==
    /\ Accept(p)
    /\ \E contact \in {Validated[body]} :
         IF ~contact.ok
         THEN /\ proc' = [proc EXCEPT ![p] = Returned("createContact",
                            validation_exception_handler("createContact", contact.errors))]
              /\ UNCHANGED <<_counter, user_collection>>
         ELSE \E rs \in [1 .. 1 + Len(contact.emails) -> RandomBits], raised \in BOOLEAN :
              \E g \in {gen_ids(_counter, now, rs)} :
              \E doc \in {contact_dict(contact, Head(g.ids), Tail(g.ids))} :
              \E r \in {IF raised THEN [ok |-> FALSE, coll |-> user_collection]
                        ELSE insert_one(user_collection, doc)} :
              \E req \in {[NoReq EXCEPT !.raised = IF r.ok THEN "none" ELSE "store"]} :
                /\ _counter' = g.counter
                /\ user_collection' = r.coll
                /\ proc' = [proc EXCEPT ![p] = Returned("createContact",
                      IF r.ok
                      THEN add_task(Return("createContact", "",
                              "Contact created successfully", HexId(doc._id), req))
                      ELSE Return("createContact", "Failed to create contact",
                              "", NoPath, req))]
    /\ UNCHANGED <<now, issued, emails_Collection, messages_collection>>

\* PUT /contacts/{contact_id}, main.py:182-218
updateContact(p, contact_id, body) ==
    /\ Accept(p)
    /\ \E contact \in {Validated[body]} :
         IF ~contact.ok
         THEN /\ proc' = [proc EXCEPT ![p] = Returned("updateContact",
                            validation_exception_handler("updateContact", contact.errors))]
              /\ UNCHANGED <<_counter, user_collection>>
         ELSE \E rs \in [1 .. Len(contact.emails) -> RandomBits], raised \in BOOLEAN :
              \* bytes.fromhex(contact_id) raises for the first e-mail, after
              \* its generate_id call (main.py:194-198)
              \E fromhex_raises \in {rs # <<>> /\ contact_id.kind = "nonhex24"} :
              \E g \in {gen_ids(_counter, now,
                                IF fromhex_raises THEN SubSeq(rs, 1, 1) ELSE rs)} :
              \E d \in {contact_dict(contact, contact_id.v,
                                     IF fromhex_raises THEN rs ELSE g.ids)} :
              \E r \in {IF fromhex_raises \/ raised
                        THEN [matched_count |-> 0, coll |-> user_collection]
                        ELSE update_one(user_collection, contact_id,
                                [first |-> d.first, last |-> d.last,
                                 emails |-> d.emails, phone |-> d.phone])} :
              \E req \in {[NoReq EXCEPT
                           !.contact_id = contact_id,
                           !.matched = Matching(user_collection, contact_id) # {},
                           !.raised = IF fromhex_raises THEN "fromhex"
                                      ELSE IF raised THEN "store" ELSE "none"]} :
                /\ _counter' = g.counter
                /\ user_collection' = r.coll
                /\ proc' = [proc EXCEPT ![p] = Returned("updateContact",
                      IF fromhex_raises \/ raised
                      THEN Unhandled("updateContact", req)
                      ELSE IF r.matched_count = 0
                      THEN Return("updateContact", "Contact not found", "",
                                  NoPath, req)
                      ELSE add_task(Return("updateContact", "",
                              "Contact updated successfully", contact_id, req)))]
    /\ UNCHANGED <<now, issued, emails_Collection, messages_collection>>

\* DELETE /contacts/{contact_id}, main.py:238-254
deleteContact(p, contact_id) ==
    /\ Accept(p)
    /\ \E raised \in BOOLEAN :
       \E r \in {IF raised THEN [deleted_count |-> 0, coll |-> user_collection]
                 ELSE delete_one(user_collection, contact_id)} :
       \E req \in {[NoReq EXCEPT
                    !.contact_id = contact_id,
                    !.matched = Matching(user_collection, contact_id) # {},
                    !.raised = IF raised THEN "store" ELSE "none"]} :
         /\ user_collection' = r.coll
         /\ proc' = [proc EXCEPT ![p] = Returned("deleteContact",
               IF raised
               THEN Return("deleteContact", "str(e)", "", NoPath, req)
               ELSE IF r.deleted_count = 0
               THEN Return("deleteContact", "Contact not found", "", NoPath, req)
               ELSE Return("deleteContact", "",
                           "Contact deleted successfully", contact_id, req))]
    /\ UNCHANGED <<_counter, now, issued, emails_Collection, messages_collection>>

\* GET /users/, GET /users/names, GET /contacts/search: one find, no
\* try/except (main.py:114-139, 220-236)
ReadOps == {"getUsers", "getUserNames", "searchContacts"}

readUsers(p, op) ==
    /\ Accept(p)
    /\ \E raised \in BOOLEAN :
         proc' = [proc EXCEPT ![p] = Returned(op,
                    IF raised THEN Unhandled(op, [NoReq EXCEPT !.raised = "store"])
                    ELSE Return(op, "", "results", NoPath, NoReq))]
    /\ UNCHANGED <<_counter, now, issued, user_collection, emails_Collection,
                   messages_collection>>

\* GET /emails/list, main.py:343-350: gatherEmailAddresses inside the handler
list_all_emails(p) ==
    /\ Accept(p)
    /\ proc' = [proc EXCEPT ![p] =
                  [IdleProc EXCEPT !.pc = "g_users", !.op = "list_all_emails"]]
    /\ UNCHANGED <<_counter, now, issued, user_collection, emails_Collection,
                   messages_collection>>

\* The response leaves; a scheduled background task is then due.
SendResponse(p) ==
    /\ proc[p].pc = "respond"
    /\ proc' = [proc EXCEPT ![p] =
                  IF proc[p].resp.task
                  THEN [proc[p] EXCEPT !.pc = "g_users", !.sent = TRUE]
                  ELSE IdleProc]
    /\ UNCHANGED <<_counter, now, issued, user_collection, emails_Collection,
                   messages_collection, nreq>>

\* The background task is over, however it ended: the request is done.
TaskOver(p) ==
    /\ proc[p].pc = "task_over"
    /\ proc' = [proc EXCEPT ![p] = IdleProc]
    /\ UNCHANGED <<_counter, now, issued, user_collection, emails_Collection,
                   messages_collection, nreq>>

----------------------------------------------------------------------------
(* gatherEmailAddresses, main.py:280-317: two finds and one insert_many,   *)
(* each an await where other requests run.                                 *)

Background(p) == proc[p].op # "list_all_emails"

\* The run of gatherEmailAddresses ends: a background task is over, the
\* handler of GET /emails/list returns what it got (an exception of
\* gatherEmailAddresses is caught there, main.py:349).
GatherEnds(p, outcome) ==
    IF Background(p)
    THEN proc' = [proc EXCEPT ![p].pc = "task_over", ![p].task_outcome = outcome,
                              ![p].users_seen = <<>>, ![p].emails_seen = <<>>]
    ELSE   proc' = [proc EXCEPT ![p] = Returned("list_all_emails",
                        Return("list_all_emails",
                               IF outcome = "done" THEN "" ELSE "str(e)",
                               IF outcome = "done" THEN "count" ELSE "",
                               NoPath,
                               [NoReq EXCEPT !.raised =
                                   IF outcome = "done" THEN "none" ELSE "store"]))]

\* existing_contacts = await user_collection.find({}).to_list(100)
GatherFindUsers(p) ==
    /\ proc[p].pc = "g_users"
    /\ \E raised \in BOOLEAN :
         IF raised THEN GatherEnds(p, "raised")
         ELSE proc' = [proc EXCEPT ![p].pc = "g_emails",
                         ![p].users_seen = to_list(user_collection, ToListLimit)]
    /\ UNCHANGED <<_counter, now, issued, user_collection, emails_Collection,
                   messages_collection, nreq>>

\* current_emails = await emails_Collection.find({}).to_list(100)
GatherFindEmails(p) ==
    /\ proc[p].pc = "g_emails"
    /\ \E raised \in BOOLEAN :
         IF raised THEN GatherEnds(p, "raised")
         ELSE proc' = [proc EXCEPT ![p].pc = "g_insert",
                         ![p].emails_seen = to_list(emails_Collection, ToListLimit)]
    /\ UNCHANGED <<_counter, now, issued, user_collection, emails_Collection,
                   messages_collection, nreq>>

\* email.address.strip().lower() of a stored e-mail document
NormalAddress(email_doc) == lower(strip(strip(email_doc.address)))

existing_email_set(current_emails) ==
    {NormalAddress(current_emails[i]) : i \in DOMAIN current_emails}

RECURSIVE all_email_docs(_)
all_email_docs(contacts) ==
    IF contacts = <<>> THEN <<>>
    ELSE Head(contacts).emails \o all_email_docs(Tail(contacts))

\* main.py:299-309: the e-mail documents of the contacts, in order, whose
\* address is not in the set read from the emails collection
new_email_docs(existing_contacts, current_emails) ==
    LET not_in_existing_email_set(email_doc) ==
            NormalAddress(email_doc) \notin existing_email_set(current_emails)
    IN SelectSeq(all_email_docs(existing_contacts), not_in_existing_email_set)

\* main.py:310-317: insert_many inside try/except
GatherInsert(p) ==
    /\ proc[p].pc = "g_insert"
    /\ \E docs \in {new_email_docs(proc[p].users_seen, proc[p].emails_seen)} :
         IF docs = <<>>
         THEN /\ GatherEnds(p, "done")
              /\ UNCHANGED emails_Collection
         ELSE \E raised \in BOOLEAN :
              \E r \in {IF raised THEN [ok |-> FALSE, coll |-> emails_Collection]
                        ELSE insert_many(emails_Collection, docs)} :
                /\ emails_Collection' = r.coll
                /\ GatherEnds(p, IF r.ok THEN "done" ELSE "error")
    /\ UNCHANGED <<_counter, now, issued, user_collection, messages_collection,
                   nreq>>

----------------------------------------------------------------------------
(* Spec: the contact and e-mail endpoints *)

Init ==
    /\ _counter \in 0 .. CounterMod - 1
    /\ now = 0
    /\ issued = <<>>
    /\ StoreInit

Next ==
    \E p \in Procs :
        \/ \E body \in Bodies : createContact(p, body)
        \/ \E body \in Bodies : \E contact_id \in ContactIds :
                updateContact(p, contact_id, body)
        \/ \E contact_id \in ContactIds : deleteContact(p, contact_id)
        \/ \E op \in ReadOps : readUsers(p, op)
        \/ list_all_emails(p)
        \/ SendResponse(p)
        \/ TaskOver(p)
        \/ GatherFindUsers(p)
        \/ GatherFindEmails(p)
        \/ GatherInsert(p)

Spec == Init /\ [][Next]_vars

ContactOps == {"createContact", "updateContact"}

----------------------------------------------------------------------------
(* C4 *)

\* C4: a POST /contacts or PUT /contacts/{contact_id} whose body fails
\* Contact validation is answered with status 422 and the body
\* {"error": "Validation failed", "details": [...]} with one
\* {field, message} entry per validation error; the step leaves the users
\* collection unchanged and schedules no background task.
C4_ValidationFailure ==
    [][\A p \in Procs : \A body \in Bodies :
         ( /\ ~Validated[body].ok
           /\ \/ createContact(p, body)
              \/ \E contact_id \in ContactIds : updateContact(p, contact_id, body) )
         => /\ proc'[p].resp.status = 422
            /\ proc'[p].resp.error = "Validation failed"
            /\ Len(proc'[p].resp.details) = Len(Validated[body].errors)
            /\ \A i \in DOMAIN proc'[p].resp.details :
                  /\ proc'[p].resp.details[i].field = Validated[body].errors[i].field
                  /\ proc'[p].resp.details[i].message = Validated[body].errors[i].message
            /\ user_collection' = user_collection
            /\ ~proc'[p].resp.task]_vars

\* A 422 response listing several fields is about to be sent while the
\* users collection holds a contact.
C4_Witness ==
    \E p \in Procs :
        /\ proc[p].pc = "respond"
        /\ proc[p].op \in ContactOps
        /\ proc[p].resp.status = 422
        /\ Len(proc[p].resp.details) >= 2
        /\ user_collection # <<>>

----------------------------------------------------------------------------
(* C5 *)

\* C5 (as claimed): no handler lets an exception other than a validation
\* error leave it; every response that is not a validation failure is a
\* normal (200) response.
C5_NoExceptionPropagates ==
    \A p \in Procs :
        proc[p].pc = "respond" => proc[p].resp.status \in {200, 422}

----------------------------------------------------------------------------
(* C6 *)

GatherPcs == {"g_users", "g_emails", "g_insert", "task_over"}

\* C6: the gatherEmailAddresses task scheduled by createContact or
\* updateContact runs only once the response has been sent; a step in which
\* the task fails changes neither the response nor the users collection, and
\* a task that is over is never started again.
C6_BackgroundTask ==
    [][\A p \in Procs :
         /\ (proc'[p].op \in ContactOps /\ proc'[p].pc \in GatherPcs)
               => proc'[p].sent /\ proc'[p].resp.task
         /\ ( /\ proc[p].op \in ContactOps
              /\ proc[p].pc \in GatherPcs \ {"task_over"}
              /\ proc'[p].pc = "task_over"
              /\ proc'[p].task_outcome \in {"raised", "error"} )
               => /\ proc'[p].resp = proc[p].resp
                  /\ user_collection' = user_collection
         /\ (proc[p].pc = "task_over" /\ proc'[p] # proc[p])
               => proc'[p] = IdleProc]_vars

\* The task of a createContact failed and the contact it wrote is stored.
C6_Witness ==
    \E p \in Procs :
        /\ proc[p].op = "createContact"
        /\ proc[p].pc = "task_over"
        /\ proc[p].task_outcome \in {"raised", "error"}
        /\ proc[p].resp.message = "Contact created successfully"
        /\ Matching(user_collection, proc[p].resp.id) # {}

----------------------------------------------------------------------------
(* C7 *)

\* C7 (as claimed): the emails collection holds at most one document per
\* e-mail address, addresses compared trimmed and case-insensitively.
C7_OneDocPerAddress ==
    \A i, j \in DOMAIN emails_Collection :
        i # j => NormalAddress(emails_Collection[i])
                    # NormalAddress(emails_Collection[j])

----------------------------------------------------------------------------
(* PhoneNumber, SMSMessenger and VoiceCallMessenger, classes/messaging.py.  *)
(* A string is the sequence of its characters.                              *)

\* A regular expression is matched by following the positions a match can
\* have reached: P holds the indexes of the next character to read
Consume(s, P, chars) ==
    {i + 1 : i \in {i \in P : i <= Len(s) /\ s[i] \in chars}}

\* x?
ZeroOrOne(s, P, chars) == P \cup Consume(s, P, chars)

\* x*
RECURSIVE ZeroOrMore(_, _, _)
ZeroOrMore(s, P, chars) ==
    IF ZeroOrOne(s, P, chars) = P THEN P
    ELSE ZeroOrMore(s, ZeroOrOne(s, P, chars), chars)

\* x{n}
RECURSIVE Exactly(_, _, _, _)
Exactly(s, P, chars, n) ==
    IF n = 0 THEN P ELSE Exactly(s, Consume(s, P, chars), chars, n - 1)

\* [-.\s]
Separators == {"-", "."} \cup Whitespace

\* messaging.py:35-37  PHONE_PATTERN.match(s) on a string without a trailing
\* newline:  ^\+?1?\s*\(?([0-9]{3})\)?[-.\s]?([0-9]{3})[-.\s]?([0-9]{4})$
PHONE_PATTERN(s) ==
    Len(s) + 1 \in
        Exactly(s,
            ZeroOrOne(s,
                Exactly(s,
                    ZeroOrOne(s,
                        ZeroOrOne(s,
                            Exactly(s,
                                ZeroOrOne(s,
                                    ZeroOrMore(s,
                                        ZeroOrOne(s,
                                            ZeroOrOne(s, {1}, {"+"}),
                                            {"1"}),
                                        Whitespace),
                                    {"("}),
                                Digits, 3),
                            {")"}),
                        Separators),
                    Digits, 3),
                Separators),
            Digits, 4)

startswith(s, ch) == s # <<>> /\ Head(s) = ch

_to_e164_no_country_code(phone) == <<"+">> \o SelectSeq(phone, isdigit)

\* messaging.py:69-88
_to_e164(phone) ==
    LET digits_only == SelectSeq(phone, isdigit)
        with_us ==
            IF Len(digits_only) = 10 /\ ~startswith(phone, "+")
            THEN <<"1">> \o digits_only ELSE digits_only
    IN IF ~startswith(with_us, "+")
       THEN <<"+">> \o
            (IF /\ ~startswith(with_us, "1") \/ Len(with_us) # 11
                /\ Len(with_us) = 10
             THEN <<"1">> \o with_us ELSE with_us)
       ELSE with_us

\* messaging.py:42-51  PhoneNumber(phone): ValueError for an empty string
PhoneNumber(phone) ==
    [raises |-> phone = <<>>, _raw |-> strip(phone),
     _e164 |-> _to_e164(strip(phone))]

\* messaging.py:105-107
is_valid(phone_obj) == PHONE_PATTERN(phone_obj._raw)

\* messaging.py:109-114
get_call_uri(phone_obj) == <<"t", "e", "l", ":">> \o phone_obj._e164

\* urllib.parse.quote on letters, digits and spaces
RECURSIVE quote(_)
quote(message) ==
    IF message = <<>> THEN <<>>
    ELSE (IF Head(message) = " " THEN <<"%", "2", "0">> ELSE <<Head(message)>>)
            \o quote(Tail(message))

\* messaging.py:116-125
get_sms_uri(phone_obj, message) ==
    <<"s", "m", "s", ":">> \o phone_obj._e164
        \o (IF message # <<>>
            THEN <<"?", "b", "o", "d", "y", "=">> \o quote(message)
            ELSE <<>>)

\* None where a URI is expected
NoUri == <<>>

\* messaging.py:385-391 and 504-510
validate_phone_number(phone) == ~PhoneNumber(phone).raises

\* messaging.py:411-444
get_mobile_sms_uri(phone_number, message) ==
    IF ~validate_phone_number(phone_number)
    THEN [success |-> FALSE, error |-> "Invalid phone number", uri |-> NoUri,
          phone_number |-> NoUri, type |-> "None"]
    ELSE [success |-> TRUE, error |-> "None",
          uri |-> get_sms_uri(PhoneNumber(phone_number), message),
          phone_number |-> PhoneNumber(phone_number)._e164,
          type |-> "native_sms"]

\* messaging.py:512-540
get_mobile_call_uri(phone_number) ==
    IF ~validate_phone_number(phone_number)
    THEN [success |-> FALSE, error |-> "Invalid phone number", uri |-> NoUri,
          phone_number |-> NoUri, type |-> "None"]
    ELSE [success |-> TRUE, error |-> "None",
          uri |-> get_call_uri(PhoneNumber(phone_number)),
          phone_number |-> PhoneNumber(phone_number)._e164,
          type |-> "native_voice_call"]

\* messaging.py:542-608; the URI is returned under the key mobile_uri
initiate_call(phone_number) ==
    IF ~validate_phone_number(phone_number)
    THEN [success |-> FALSE, error |-> "Invalid phone number", uri |-> NoUri,
          phone_number |-> NoUri, type |-> "None"]
    ELSE [success |-> TRUE, error |-> "None",
          uri |-> get_call_uri(PhoneNumber(phone_number)),
          phone_number |-> PhoneNumber(phone_number)._e164,
          type |-> "native_voice_call"]

----------------------------------------------------------------------------
(* Message, dataModels.py:7-35, and the message endpoints,                  *)
(* main.py:363-542.  _id and _contact_id are private attributes of the      *)
(* pydantic model: the constructor drops them and model_dump() leaves them  *)
(* out, so a record is stored under an ObjectId the store assigns.          *)

\* An ObjectId: equal to no string a request can carry
ObjectId(n) == -1 - n

\* Message(type=..., recipient=..., subject=..., body=..., status=...)
Message(type, recipient, subject, body, status) ==
    LET errors ==
            (IF type \notin {"email", "sms"}
             THEN <<FieldError("type", "Input should be 'email' or 'sms'")>>
             ELSE <<>>)
            \o (IF strip(recipient) = <<>>
                THEN <<FieldError("recipient", "Recipient cannot be empty")>>
                ELSE <<>>)
            \o (IF strip(body) = <<>>
                THEN <<FieldError("body", "Message body cannot be empty")>>
                ELSE <<>>)
            \o (IF status \notin {"draft", "sending", "sent", "failed",
                                  "delivered"}
                THEN <<FieldError("status", "Input should be 'draft', ...")>>
                ELSE <<>>)
    IN [ok |-> errors = <<>>, errors |-> errors,
        message |-> [NoMessage EXCEPT !.type = type, !.recipient = strip(recipient),
                                      !.subject = subject, !.body = strip(body),
                                      !.status = status,
                                      !.timestamp = "utcnow"]]

\* message.model_dump() as insert_one stores it
message_dict(message, id) ==
    [_id |-> id, type |-> message.type, direction |-> message.direction,
     recipient |-> message.recipient,
     subject |-> message.subject, body |-> message.body,
     status |-> message.status, timestamp |-> message.timestamp,
     delivered_at |-> message.delivered_at,
     error_message |-> message.error_message, metadata |-> message.metadata]

\* What email_messenger.send_email can return (messaging.py:264-322)
SendResults ==
    { [success |-> TRUE, provider |-> "smtp", error |-> "None"],
      [success |-> FALSE, provider |-> "None",
       error |-> "SMTP credentials not configured"] }

message_sent_unchanged(message, result) == message

\* main.py:418-428: the status set from the result of the send
message_sent(message, result) ==
    IF result.success
    THEN [message EXCEPT !.status = "sent", !.delivered_at = "utcnow",
                         !.metadata = result.provider]
    ELSE [message EXCEPT !.status = "failed", !.error_message = result.error]

Subject == <<"s">>
Edited == <<"e">>

\* Bodies of POST /messages/email/send and /messages/email/draft
EmailContactIds ==
    {NoPath, HexId(UnknownId)}
        \cup {HexId(user_collection[i]._id) : i \in DOMAIN user_collection}

EmailBodies ==
    [contact_id : EmailContactIds, email : {Missing, AddrA, <<" ">>},
     body : {<<"h", "i", " ">>, <<" ">>}, is_draft : BOOLEAN]

\* A handler returns resp
Answer(p, op, resp) == proc' = [proc EXCEPT ![p] = Returned(op, resp)]

\* The request of a send_email_message call; raised names the call of the
\* store that raised, "none" when none did
MailReq(message_data, raised) ==
    [NoReq EXCEPT
        !.contact_id = message_data.contact_id,
        !.matched = /\ message_data.contact_id # NoPath
                    /\ Matching(user_collection, message_data.contact_id) # {},
        !.raised = raised,
        !.email = message_data.email, !.body = message_data.body,
        !.is_draft = message_data.is_draft]

after_Message_insert(is_draft) == "m_insert"

\* main.py:400-411: a draft goes on to insert_one, anything else to send_email
after_Message(is_draft) == IF is_draft THEN "m_insert" ELSE "m_send"

\* POST /messages/email/send, main.py:363-398: the field checks, find_one of
\* the contact, generate_id and the Message record
send_email_message(p, message_data) ==
    /\ Accept(p)
    /\ LET op == "send_email_message"
           Early(error) ==
               /\ Answer(p, op, Return(op, error, "", NoPath,
                                       MailReq(message_data, "none")))
               /\ UNCHANGED _counter
       IN
       IF message_data.contact_id = NoPath THEN Early("contact_id is required")
       ELSE IF message_data.email = Missing THEN Early("email is required")
       ELSE IF strip(message_data.body) = <<>> THEN Early("body cannot be empty")
       ELSE \E raised \in BOOLEAN :
         IF raised
         THEN /\ Answer(p, op, Return(op, "Failed to send email", "", NoPath,
                                      MailReq(message_data, "find_one")))
              /\ UNCHANGED _counter
         ELSE IF Matching(user_collection, message_data.contact_id) = {}
         THEN Early("Contact not found")
         ELSE \E random_bytes \in RandomBits :
              \E g \in {generate_id(_counter, now, random_bytes)} :
              \E m \in {Message("email", message_data.email, Subject,
                                message_data.body,
                                IF message_data.is_draft THEN "draft"
                                ELSE "sending")} :
                /\ _counter' = g.counter
                /\ IF ~m.ok
                   THEN Answer(p, op,
                            [Return(op, "Validation failed", "", NoPath,
                                    MailReq(message_data, "none"))
                                EXCEPT !.details = m.errors])
                   ELSE proc' = [proc EXCEPT ![p] =
                            [IdleProc EXCEPT
                                !.pc = after_Message(message_data.is_draft),
                                !.op = op, !.message_id = HexId(g.id),
                                !.message = m.message,
                                !.req = MailReq(message_data, "none"),
                                !.request = nreq]]
    /\ UNCHANGED <<now, issued, user_collection, emails_Collection,
                   messages_collection>>

\* main.py:410-428: await email_messenger.send_email(...) and the status
\* set from what it returns
email_messenger_send_email(p) ==
    /\ proc[p].pc = "m_send"
    /\ \E result \in SendResults :
         proc' = [proc EXCEPT ![p] =
                    [proc[p] EXCEPT
                        !.pc = "m_insert",
                        !.message = message_sent(proc[p].message, result),
                        !.result = result,
                        !.req = [proc[p].req EXCEPT
                                    !.sends = proc[p].req.sends + 1]]]
    /\ UNCHANGED <<_counter, now, issued, user_collection, emails_Collection,
                   messages_collection, nreq>>

\* main.py:401-408 and 430-445: insert_one of message.model_dump() and the
\* answer; an exception of the store is answered by main.py:454-455
send_email_message_insert_one(p) ==
    /\ proc[p].pc = "m_insert"
    /\ \E raised \in BOOLEAN :
       \E r \in {IF raised THEN [ok |-> FALSE, coll |-> messages_collection]
                 ELSE insert_one(messages_collection,
                          message_dict(proc[p].message,
                                       ObjectId(proc[p].request)))} :
       \E req \in {[proc[p].req EXCEPT
                       !.raised = IF raised THEN "insert_one" ELSE "none",
                       !.inserts = Len(r.coll) - Len(messages_collection)]} :
         LET op == "send_email_message" IN
         /\ messages_collection' = r.coll
         /\ Answer(p, op,
              IF raised
              THEN Return(op, "Failed to send email", "", NoPath, req)
              ELSE IF req.is_draft
              THEN Return(op, "", "Email saved as draft", proc[p].message_id, req)
              ELSE IF proc[p].result.success
              THEN Return(op, "", "Email sent successfully",
                          proc[p].message_id, req)
              ELSE Return(op, "Failed to send email", "",
                          proc[p].message_id, req))
    /\ UNCHANGED <<_counter, now, issued, user_collection, emails_Collection,
                   nreq>>

\* POST /messages/email/draft, main.py:458-462
save_email_draft(p, message_data) ==
    send_email_message(p, [message_data EXCEPT !.is_draft = TRUE])

\* Bodies of POST /messages/sms/send-native and /messages/call/initiate
MobilePhones == {Missing, <<" ">>, <<"5", "5", "5">>}

SmsBodies ==
    [contact_id : EmailContactIds, phone : MobilePhones,
     message : {<<>>, <<"h", "i">>}]

CallBodies ==
    [contact_id : EmailContactIds, phone : MobilePhones,
     contact_name : {Missing, <<"A", "l">>}]

\* The request of a send_sms_native or initiate_voice_call call
MobileReq(contact_id, raised) ==
    [NoReq EXCEPT
        !.contact_id = contact_id,
        !.matched = /\ contact_id # NoPath
                    /\ Matching(user_collection, contact_id) # {},
        !.raised = raised]

\* main.py:618-626 and 680-686: the phone check and the contact check of
\* both handlers; after what the answer of the call in hand goes on
MobileChecks(p, op, contact_id, phone, failed, go_on) ==
    IF phone = Missing \/ phone = <<>>
    THEN /\ Answer(p, op, Return(op, "phone number is required", "", NoPath,
                                 MobileReq(contact_id, "none")))
         /\ UNCHANGED _counter
    ELSE \E raised \in BOOLEAN :
         IF contact_id # NoPath /\ raised
         THEN /\ Answer(p, op, Return(op, failed, "", NoPath,
                                      MobileReq(contact_id, "find_one")))
              /\ UNCHANGED _counter
         ELSE IF /\ contact_id # NoPath
                 /\ Matching(user_collection, contact_id) = {}
         THEN /\ Answer(p, op, Return(op, "Contact not found", "", NoPath,
                                      MobileReq(contact_id, "none")))
              /\ UNCHANGED _counter
         ELSE go_on

\* main.py:629-645 and 694-711: the record of the intent, for a result that
\* succeeded and a request that named a contact
LogIntent(p, op, contact_id, result, type, recipient, body, status, failed) ==
    IF ~(result.success /\ contact_id # NoPath)
    THEN /\ Answer(p, op, Return(op, IF result.success THEN "" ELSE result.error,
                                 IF result.success THEN "result" ELSE "",
                                 NoPath, MobileReq(contact_id, "none")))
         /\ UNCHANGED _counter
    ELSE \E random_bytes \in RandomBits :
         \E g \in {generate_id(_counter, now, random_bytes)} :
         \E m \in {Message(type, recipient, <<>>, body, status)} :
            /\ _counter' = g.counter
            /\ IF ~m.ok
               THEN Answer(p, op, Return(op, failed, "", NoPath,
                                         MobileReq(contact_id, "Message")))
               ELSE proc' = [proc EXCEPT ![p] =
                        [IdleProc EXCEPT
                            !.pc = "log_insert", !.op = op,
                            !.message_id = HexId(g.id),
                            !.message = [m.message EXCEPT !.metadata = result.type],
                            !.req = MobileReq(contact_id, "none"),
                            !.request = nreq]]

\* POST /messages/sms/send-native, main.py:610-633
send_sms_native(p, sms_data) ==
    /\ Accept(p)
    /\ LET op == "send_sms_native"
           failed == "Failed to initiate SMS"
           go_on ==
               LogIntent(p, op, sms_data.contact_id,
                         get_mobile_sms_uri(sms_data.phone, sms_data.message),
                         "sms", sms_data.phone, sms_data.message, "sending",
                         failed)
       IN MobileChecks(p, op, sms_data.contact_id, sms_data.phone, failed, go_on)
    /\ UNCHANGED <<now, issued, user_collection, emails_Collection,
                   messages_collection>>

\* POST /messages/call/initiate, main.py:671-708
initiate_voice_call(p, call_data) ==
    /\ Accept(p)
    /\ LET op == "initiate_voice_call"
           failed == "Failed to initiate call"
           go_on ==
               LogIntent(p, op, call_data.contact_id,
                         initiate_call(call_data.phone),
                         "call", call_data.phone,
                         IF call_data.contact_name # Missing
                         THEN <<"V", "o", "i", "c", "e", " ", "c", "a", "l", "l",
                                " ", "t", "o", " ">> \o call_data.contact_name
                         ELSE <<"V", "o", "i", "c", "e", " ", "c", "a", "l", "l">>,
                         "initiated", failed)
       IN MobileChecks(p, op, call_data.contact_id, call_data.phone, failed,
                       go_on)
    /\ UNCHANGED <<now, issued, user_collection, emails_Collection,
                   messages_collection>>

\* main.py:644-649 and 709-716: insert_one of the record and the answer
log_intent_insert_one(p) ==
    /\ proc[p].pc = "log_insert"
    /\ \E raised \in BOOLEAN :
       \E r \in {IF raised THEN [ok |-> FALSE, coll |-> messages_collection]
                 ELSE insert_one(messages_collection,
                          message_dict(proc[p].message,
                                       ObjectId(proc[p].request)))} :
       \E req \in {[proc[p].req EXCEPT
                       !.raised = IF raised THEN "insert_one" ELSE "none",
                       !.inserts = Len(r.coll) - Len(messages_collection)]} :
         /\ messages_collection' = r.coll
         /\ Answer(p, proc[p].op,
              IF raised
              THEN Return(proc[p].op,
                          IF proc[p].op = "send_sms_native"
                          THEN "Failed to initiate SMS"
                          ELSE "Failed to initiate call",
                          "", NoPath, req)
              ELSE Return(proc[p].op, "", "result", proc[p].message_id, req))
    /\ UNCHANGED <<_counter, now, issued, user_collection, emails_Collection,
                   nreq>>

\* The identifiers of the records the database holds at the start: values
\* generate_id does not produce within the bounds
SeedId(k) == TimeMod * RandMod * CounterMod + k

\* The identifiers the draft saves that have answered returned
ReturnedDraftIds ==
    {proc[q].resp.id : q \in {q \in Procs :
        /\ proc[q].pc = "respond"
        /\ proc[q].resp.message = "Email saved as draft"}}

\* Path parameters of PUT and DELETE /messages/{message_id}
MessageIds == {HexId(SeedId(k)) : k \in 1 .. 4} \cup ReturnedDraftIds

\* Bodies of PUT /messages/{message_id}
UpdateBodies ==
    { [subject |-> Missing, body |-> Missing, recipient |-> Missing],
      [subject |-> Missing, body |-> Edited, recipient |-> Missing],
      [subject |-> Missing, body |-> <<" ">>, recipient |-> Missing],
      [subject |-> Edited, body |-> Missing, recipient |-> Edited] }

update_fields_all(message_data) ==
    [f \in {"subject", "body", "recipient"} |-> message_data[f]]

\* main.py:497-504
update_fields(message_data) ==
    [f \in {f \in {"subject", "body", "recipient"} : message_data[f] # Missing}
        |-> message_data[f]]

not_draft_never(existing) == FALSE

\* existing.get("status") != "draft"
not_draft(existing) == existing.status # "draft"

\* find_one({"_id": message_id}) of a message that is there
find_one(coll, id) == coll[FirstMatch(coll, id)]

MessageReq(message_id, raised) ==
    [NoReq EXCEPT !.contact_id = message_id,
                  !.matched = Matching(messages_collection, message_id) # {},
                  !.raised = IF raised THEN "store" ELSE "none"]

\* PUT /messages/{message_id}, main.py:485-505: up to the second await
update_message(p, message_id, message_data) ==
    /\ Accept(p)
    /\ \E raised \in BOOLEAN :
       \E req \in {MessageReq(message_id, raised)} :
         LET op == "update_message" IN
         IF raised
         THEN Answer(p, op, Return(op, "Failed to update message", "", NoPath, req))
         ELSE IF Matching(messages_collection, message_id) = {}
         THEN Answer(p, op, Return(op, "Message not found", "", NoPath, req))
         ELSE IF not_draft(find_one(messages_collection, message_id))
         THEN Answer(p, op, Return(op, "Only draft messages can be updated", "",
                                   NoPath, req))
         ELSE IF DOMAIN update_fields(message_data) = {}
         THEN Answer(p, op, Return(op, "", "Draft updated successfully",
                                   message_id, req))
         ELSE proc' = [proc EXCEPT ![p] =
                         [IdleProc EXCEPT !.pc = "m_update", !.op = op,
                                          !.message_id = message_id,
                                          !.message_data = message_data]]
    /\ UNCHANGED <<_counter, now, issued, user_collection, emails_Collection,
                   messages_collection>>

\* main.py:506-517: update_one and the answer
update_message_update_one(p) ==
    /\ proc[p].pc = "m_update"
    /\ \E raised \in BOOLEAN :
       \E req \in {MessageReq(proc[p].message_id, raised)} :
         LET op == "update_message" IN
         IF raised
         THEN /\ Answer(p, op, Return(op, "Failed to update message", "",
                                      NoPath, req))
              /\ UNCHANGED messages_collection
         ELSE /\ messages_collection' =
                    update_one(messages_collection, proc[p].message_id,
                               update_fields(proc[p].message_data)).coll
              /\ Answer(p, op, Return(op, "", "Draft updated successfully",
                                      proc[p].message_id, req))
    /\ UNCHANGED <<_counter, now, issued, user_collection, emails_Collection,
                   nreq>>

\* DELETE /messages/{message_id}, main.py:520-531: up to the second await
delete_message(p, message_id) ==
    /\ Accept(p)
    /\ \E raised \in BOOLEAN :
       \E req \in {MessageReq(message_id, raised)} :
         LET op == "delete_message" IN
         IF raised
         THEN Answer(p, op, Return(op, "Failed to delete message", "", NoPath, req))
         ELSE IF Matching(messages_collection, message_id) = {}
         THEN Answer(p, op, Return(op, "Message not found", "", NoPath, req))
         ELSE IF not_draft(find_one(messages_collection, message_id))
         THEN Answer(p, op, Return(op, "Only draft messages can be deleted", "",
                                   NoPath, req))
         ELSE proc' = [proc EXCEPT ![p] =
                         [IdleProc EXCEPT !.pc = "m_delete", !.op = op,
                                          !.message_id = message_id]]
    /\ UNCHANGED <<_counter, now, issued, user_collection, emails_Collection,
                   messages_collection>>

\* main.py:532-542: delete_one and the answer
delete_message_delete_one(p) ==
    /\ proc[p].pc = "m_delete"
    /\ \E raised \in BOOLEAN :
       \E req \in {MessageReq(proc[p].message_id, raised)} :
       \E r \in {IF raised
                 THEN [deleted_count |-> 0, coll |-> messages_collection]
                 ELSE delete_one(messages_collection, proc[p].message_id)} :
         LET op == "delete_message" IN
         /\ messages_collection' = r.coll
         /\ Answer(p, op,
              IF raised
              THEN Return(op, "Failed to delete message", "", NoPath, req)
              ELSE IF r.deleted_count = 0
              THEN Return(op, "Message not found", "", NoPath, req)
              ELSE Return(op, "", "Draft deleted successfully",
                          proc[p].message_id, req))
    /\ UNCHANGED <<_counter, now, issued, user_collection, emails_Collection,
                   nreq>>

----------------------------------------------------------------------------
(* SpecMsg: the message endpoints and deleteContact over a database that    *)
(* holds one contact, its e-mail address as gatherEmailAddresses stores it, *)
(* and three e-mail records stored under string identifiers: a draft, a     *)
(* sent one and a failed one.                                               *)

SeedContact ==
    contact_dict(Validated[[first |-> <<"A", "l">>, last |-> <<"P", "o">>,
                            emails |-> <<AsString(AddrA)>>, phone |-> <<>>]],
                 0, <<1>>)

SeedMessage(id, status) ==
    message_dict(
        [Message("email", AddrA, Subject, <<"h", "i">>, status).message
            EXCEPT !.delivered_at = IF status = "sent" THEN "utcnow" ELSE "None",
                   !.metadata = IF status = "sent" THEN "smtp" ELSE "None",
                   !.error_message = IF status = "failed"
                                     THEN "SMTP credentials not configured"
                                     ELSE "None"],
        id)

SeedMessages ==
    <<SeedMessage(SeedId(1), "draft"), SeedMessage(SeedId(2), "sent"),
      SeedMessage(SeedId(3), "failed")>>

InitMsg ==
    /\ _counter \in 0 .. CounterMod - 1
    /\ now = 0
    /\ issued = <<>>
    /\ user_collection = <<SeedContact>>
    /\ emails_Collection = SeedContact.emails
    /\ messages_collection = SeedMessages
    /\ proc = [p \in Procs |-> IdleProc]
    /\ nreq = 0

NextMsg ==
    \E p \in Procs :
        \/ \E message_data \in EmailBodies : send_email_message(p, message_data)
        \/ \E message_data \in EmailBodies : save_email_draft(p, message_data)
        \/ email_messenger_send_email(p)
        \/ send_email_message_insert_one(p)
        \/ \E sms_data \in SmsBodies : send_sms_native(p, sms_data)
        \/ \E call_data \in CallBodies : initiate_voice_call(p, call_data)
        \/ log_intent_insert_one(p)
        \/ \E contact_id \in {HexId(SeedContact._id), HexId(UnknownId)} :
                deleteContact(p, contact_id)
        \/ \E message_id \in MessageIds : \E message_data \in UpdateBodies :
                update_message(p, message_id, message_data)
        \/ update_message_update_one(p)
        \/ \E message_id \in MessageIds : delete_message(p, message_id)
        \/ delete_message_delete_one(p)
        \/ SendResponse(p)

SpecMsg == InitMsg /\ [][NextMsg]_vars

----------------------------------------------------------------------------
(* C8 *)

\* C8: update_message and delete_message change the messages collection
\* only when the target exists and is a draft; the store working, a missing
\* target is answered "Message not found" and a non-draft one "Only draft
\* messages can be updated" / "... deleted" with the collection unchanged;
\* no step modifies or removes a message whose status is sent or failed.
C8_OnlyDraftsChange ==
    [][/\ \A i \in DOMAIN messages_collection :
            messages_collection[i].status \in {"sent", "failed"}
              => \E j \in DOMAIN messages_collection' :
                    messages_collection'[j] = messages_collection[i]
       /\ \A p \in Procs : \A message_id \in MessageIds :
            ( /\ \/ \E message_data \in UpdateBodies :
                        update_message(p, message_id, message_data)
                 \/ delete_message(p, message_id)
              /\ proc'[p].resp.req.raised = "none" )
            => /\ Matching(messages_collection, message_id) = {}
                    => /\ proc'[p].pc = "respond"
                       /\ proc'[p].resp.error = "Message not found"
               /\ ( /\ Matching(messages_collection, message_id) # {}
                    /\ find_one(messages_collection, message_id).status # "draft" )
                    => /\ proc'[p].pc = "respond"
                       /\ proc'[p].resp.error =
                            IF proc'[p].op = "update_message"
                            THEN "Only draft messages can be updated"
                            ELSE "Only draft messages can be deleted"
       /\ \A p \in Procs :
            ( /\ update_message_update_one(p) \/ delete_message_delete_one(p)
              /\ messages_collection' # messages_collection )
            => /\ Matching(messages_collection, proc[p].message_id) # {}
               /\ find_one(messages_collection, proc[p].message_id).status = "draft"]_vars

\* An update of the sent message is refused while the message is still
\* stored as it was, and the draft has been deleted.
C8_Witness ==
    \E p \in Procs :
        /\ proc[p].pc = "respond"
        /\ proc[p].op = "update_message"
        /\ proc[p].resp.error = "Only draft messages can be updated"
        /\ proc[p].resp.req.contact_id = HexId(SeedId(2))
        /\ \E i \in DOMAIN messages_collection :
              messages_collection[i] = SeedMessage(SeedId(2), "sent")
        /\ \A i \in DOMAIN messages_collection :
              messages_collection[i]._id # SeedId(1)

----------------------------------------------------------------------------
(* C9 *)

\* The record m is what a send_email_message with this is_draft and this
\* result of the send stores
StoredAs(m, is_draft, result) ==
    /\ m.type = "email"
    /\ m.status \in {"draft", "sent", "failed"}
    /\ m.status = "draft" <=> is_draft
    /\ m.status = "sent" <=> (~is_draft /\ result.success)
    /\ m.status = "failed" <=> (~is_draft /\ ~result.success)
    /\ m.status = "sent" => m.delivered_at # "None" /\ m.metadata = result.provider
    /\ m.status = "failed" => m.error_message = result.error

\* C9: the record send_email_message stores has status draft exactly when
\* is_draft is true, sent (with delivered_at and provider metadata) exactly
\* when the send succeeded, failed (with error_message) exactly when it
\* failed; no e-mail record is stored as sending, and no stored record
\* changes status.
C9_StoredStatus ==
    [][/\ Len(messages_collection') > Len(messages_collection)
            => \A p \in Procs :
                 send_email_message_insert_one(p)
                    => StoredAs(messages_collection'[Len(messages_collection')],
                                proc[p].req.is_draft, proc[p].result)
       /\ \A j \in DOMAIN messages_collection' :
            messages_collection'[j].type = "email"
              => messages_collection'[j].status # "sending"
       /\ \A i \in DOMAIN messages_collection :
          \A j \in DOMAIN messages_collection' :
            messages_collection'[j]._id = messages_collection[i]._id
              => messages_collection'[j].status = messages_collection[i].status]_vars

\* Two records stored by send_email_message: one sent, one failed.
C9_Witness ==
    \E i, j \in DOMAIN messages_collection :
        /\ messages_collection[i]._id < 0
        /\ messages_collection[i].status = "sent"
        /\ messages_collection[i].delivered_at # "None"
        /\ messages_collection[j]._id < 0
        /\ messages_collection[j].status = "failed"
        /\ messages_collection[j].error_message # "None"

----------------------------------------------------------------------------
(* C10 *)

----------------------------------------------------------------------------
(* SpecCreate: createContact, with contacts of many e-mails, next to        *)
(* deleteContact; the background tasks stay pending                         *)

CreateBodies == ValidBodies \cup {ManyEmailsBody}

NextCreate ==
    \E p \in Procs :
        \/ \E body \in CreateBodies : createContact(p, body)
        \/ \E contact_id \in ContactIds : deleteContact(p, contact_id)
        \/ SendResponse(p)

SpecCreate == Init /\ [][NextCreate]_vars

----------------------------------------------------------------------------
(* C16 *)

\* p's createContact has just returned with success
Created(p) ==
    /\ proc[p].pc = "idle"
    /\ proc'[p].pc = "respond"
    /\ proc'[p].resp.message = "Contact created successfully"

\* The step added one contact, under an unused identifier that generate_id
\* made in this call; its e-mails carry identifiers different from it and
\* from each other, and its identifier as _contact_id.
StoredOneContact ==
    LET doc == user_collection'[Len(user_collection')] IN
      /\ Len(user_collection') = Len(user_collection) + 1
      /\ SubSeq(user_collection', 1, Len(user_collection)) = user_collection
      /\ ~HasId(user_collection, doc._id)
      /\ TimestampOf(doc._id) = now
      /\ CounterOf(doc._id) = _counter
      /\ \A i \in DOMAIN doc.emails :
            /\ doc.emails[i]._contact_id = doc._id
            /\ doc.emails[i]._id # doc._id
            /\ \A j \in DOMAIN doc.emails :
                  i # j => doc.emails[i]._id # doc.emails[j]._id

----------------------------------------------------------------------------
(* C17 *)

\* A createContact answered with contact_id and the contact is stored
JustCreated(contact_id) ==
    \E q \in Procs :
        /\ proc[q].pc = "respond"
        /\ proc[q].resp.message = "Contact created successfully"
        /\ proc[q].resp.id = contact_id
        /\ user_collection # <<>>
        /\ HexId(user_collection[Len(user_collection)]._id) = contact_id

\* C17: the id a successful createContact returns is the _id of the
\* contact it stored; the next request, an updateContact (with a valid
\* body) or a deleteContact with that id, the store working, answers
\* "Contact updated successfully" / "Contact deleted successfully", and
\* after the delete the contact is not in the users collection.
C17_ReturnedIdIdentifies ==
    [][\A p \in Procs :
         /\ Created(p)
              => /\ proc'[p].resp.id
                      = HexId(user_collection'[Len(user_collection')]._id)
                 /\ Matching(user_collection', proc'[p].resp.id)
                      = {Len(user_collection')}
         /\ \A contact_id \in ContactIds :
              ( /\ JustCreated(contact_id)
                /\ proc[p].pc = "idle"
                /\ proc'[p].pc = "respond"
                /\ proc'[p].resp.req.raised = "none"
                /\ proc'[p].resp.req.contact_id = contact_id )
              => /\ (\E body \in ValidBodies : updateContact(p, contact_id, body))
                      => /\ proc'[p].resp.message = "Contact updated successfully"
                         /\ proc'[p].resp.id = contact_id
                         /\ Matching(user_collection', contact_id) # {}
                 /\ deleteContact(p, contact_id)
                      => /\ proc'[p].resp.message = "Contact deleted successfully"
                         /\ Matching(user_collection', contact_id) = {}]_vars

\* A contact was created and then deleted under the id that createContact
\* returned.
C17_Witness ==
    \E p, q \in Procs :
        /\ proc[q].pc = "respond"
        /\ proc[q].resp.message = "Contact created successfully"
        /\ proc[p].pc = "respond"
        /\ proc[p].resp.message = "Contact deleted successfully"
        /\ proc[p].resp.id = proc[q].resp.id
        /\ Matching(user_collection, proc[q].resp.id) = {}

----------------------------------------------------------------------------
(* C11 *)

\* C11 (as claimed): updateContact (with a valid body) and deleteContact
\* called with a contact_id that is not a well-formed identifier, such as
\* "invalid_id", answer {"error": "Invalid contact ID"}, the store working
\* normally.
C11_InvalidIdRejected ==
    \A p \in Procs :
        ( /\ proc[p].pc = "respond"
          /\ proc[p].op \in {"updateContact", "deleteContact"}
          /\ proc[p].resp.status # 422
          /\ proc[p].resp.req.raised = "none"
          /\ proc[p].resp.req.contact_id = ShortId )
        => proc[p].resp.error = "Invalid contact ID"

----------------------------------------------------------------------------
(* checkForDuplicateContact, main.py:257-278 *)

\* ex_contact.get("email", []): the documents createContact stores keep
\* their addresses under "emails"; there is no "email" key
get_email(ex_contact) == {}

\* set(contact.emails): EmailAddress objects are not hashable
set_of_emails_raises(contact) == contact.emails # <<>>

\* The value returned, or the TypeError raised
checkForDuplicateContact(contact, contact_id, coll) ==
    LET existing_contacts ==
            to_list(SelectSeq(coll, LAMBDA doc : /\ doc.first = contact.first
                                                 /\ doc.last = contact.last),
                    ToListLimit)
        filtered_contacts ==
            {i \in DOMAIN existing_contacts :
                HexId(existing_contacts[i]._id) # contact_id}
        emails == UNION {get_email(existing_contacts[i]) : i \in filtered_contacts}
        phones == UNION {Range(existing_contacts[i].phone) : i \in filtered_contacts}
    IN IF set_of_emails_raises(contact) THEN "TypeError"
       ELSE IF emails \cap {} # {} \/ phones \cap Range(contact.phone) # {}
       THEN "True"
       ELSE "False"

----------------------------------------------------------------------------
(* SpecDup: checkForDuplicateContact over small users collections *)

DupNames == {<<"A", "l">>, <<"B", "o">>}
DupEmails == {<<>>, <<[address |-> AddrA, type |-> "home"]>>}
DupPhones == {<<>>, << <<"1">> >>, << <<"2">> >>}

\* Contacts as createContact stores them
DupDocs(id) ==
    {contact_dict([first |-> f, last |-> <<"P", "o">>, emails |-> e, phone |-> ph],
                  id, [i \in DOMAIN e |-> id + 2])
        : f \in DupNames, e \in DupEmails, ph \in DupPhones}

DupStores ==
    {<<>>} \cup {<<d>> : d \in DupDocs(0)}
           \cup {<<d, e>> : d \in DupDocs(0), e \in DupDocs(1)}

\* The contact handed to checkForDuplicateContact
DupContacts ==
    [first : DupNames, last : {<<"P", "o">>}, emails : DupEmails,
     phone : DupPhones \cup {<< <<"2">>, <<"1">> >>}]

InitDup ==
    /\ _counter = 0
    /\ now = 0
    /\ issued = <<>>
    /\ user_collection \in DupStores
    /\ emails_Collection = <<>>
    /\ messages_collection = <<>>
    /\ proc = [p \in Procs |-> IdleProc]
    /\ nreq = 0

CallCheckForDuplicateContact ==
    /\ issued = <<>>
    /\ \E contact \in DupContacts : \E contact_id \in {HexId(0), HexId(1), ShortId} :
         issued' = <<[contact |-> contact, contact_id |-> contact_id,
                      result |-> checkForDuplicateContact(contact, contact_id,
                                                          user_collection)]>>
    /\ UNCHANGED <<_counter, now>>
    /\ StoreUnchanged

NextDup == CallCheckForDuplicateContact

SpecDup == InitDup /\ [][NextDup]_vars

----------------------------------------------------------------------------
(* C12 *)

\* A stored contact with the same name and another id shares an e-mail
\* address or a phone number with the contact
SharesWithAnother(contact, contact_id) ==
    \E i \in DOMAIN user_collection :
        /\ user_collection[i].first = contact.first
        /\ user_collection[i].last = contact.last
        /\ HexId(user_collection[i]._id) # contact_id
        /\ \/ \E j \in DOMAIN user_collection[i].emails :
                \E k \in DOMAIN contact.emails :
                  user_collection[i].emails[j].address = contact.emails[k].address
           \/ Range(user_collection[i].phone) \cap Range(contact.phone) # {}

\* C12 (as claimed): checkForDuplicateContact returns True exactly when a
\* stored contact with the same first and last name and a different id
\* shares an e-mail address or a phone number with the contact, and False
\* otherwise.
C12_DuplicateDetected ==
    \A i \in DOMAIN issued :
        issued[i].result =
            IF SharesWithAnother(issued[i].contact, issued[i].contact_id)
            THEN "True" ELSE "False"

----------------------------------------------------------------------------
(* SpecContact: the Contact constructor over families of names, e-mail lists and    *)
(* phone lists                                                              *)

MaxNameLen == 3
MaxPhoneLen == 2

\* The strings of at most n characters over an alphabet
Strings(alphabet, n) == UNION {[1 .. k -> alphabet] : k \in 0 .. n}

GoodName == <<"P", "o">>

NameInputs ==
    [first : Strings({"a", "B", " ", "-", "'", "1", "\t"}, MaxNameLen),
     last : {GoodName, <<" ">>, <<"x", "!">>},
     emails : {<<>>}, phone : {<<>>}]

\* E-mail strings put together from their parts, well-formed or not
EmailStrings ==
    {pl \o l \o at \o d \o dot \o t \o pr :
        pl \in {<<>>, <<" ">>}, pr \in {<<>>, <<"\n">>},
        l \in {<<>>, <<"a">>, <<"A", ".", "1">>},
        at \in {<<>>, <<"@">>},
        d \in {<<>>, <<"b">>, <<"B", "-", "c">>, <<"b", "_">>},
        dot \in {<<>>, <<".">>},
        t \in {<<"c", "d">>, <<"c">>, <<"C", "D", "e">>, <<"c", "1">>}}

\* The entries the longer lists are made of
FewEmailStrings ==
    {AddrA, AddrAUpper, <<>>, <<" ">>, <<"b", "a", "d">>,
     <<" ", "C", "@", "b", ".", "c", "d">>}

EmailLists ==
    {<<AsString(a)>> : a \in EmailStrings}
        \cup {<<AsString(a), AsString(b)>> : a, b \in FewEmailStrings}
        \cup {<<AsString(a), AsString(b), AsString(c)>> : a, b, c \in FewEmailStrings}

EmailInputs ==
    [first : {GoodName}, last : {GoodName}, emails : EmailLists, phone : {<<>>}]

PhoneStrings == Strings({"1", "-", "(", ")", " ", "x"}, MaxPhoneLen)

PhoneLists ==
    {<<>>} \cup {<<a>> : a \in PhoneStrings}
           \cup {<<a, b>> : a, b \in PhoneStrings}

PhoneInputs ==
    [first : {GoodName}, last : {GoodName}, emails : {<<>>}, phone : PhoneLists]

ContactInputs == NameInputs \cup EmailInputs \cup PhoneInputs

InitContact ==
    /\ _counter = 0
    /\ now = 0
    /\ issued = <<>>
    /\ StoreInit

\* contact = Contact(**body)
ConstructContact ==
    /\ issued = <<>>
    /\ \E body \in ContactInputs :
         issued' = <<[body |-> body, contact |-> Contact(body)]>>
    /\ UNCHANGED <<_counter, now>>
    /\ StoreUnchanged

NextContact == ConstructContact

SpecContact == InitContact /\ [][NextContact]_vars

----------------------------------------------------------------------------
(* C13 *)

\* A string without its leading and trailing whitespace
RECURSIVE DropLeading(_)
DropLeading(s) ==
    IF s = <<>> \/ Head(s) \notin Whitespace THEN s ELSE DropLeading(Tail(s))

RECURSIVE DropTrailing(_)
DropTrailing(s) ==
    IF s = <<>> \/ s[Len(s)] \notin Whitespace THEN s
    ELSE DropTrailing(SubSeq(s, 1, Len(s) - 1))

Trimmed(s) == DropTrailing(DropLeading(s))

NameCharsOnly(s) ==
    \A i \in DOMAIN s : s[i] \in AsciiLetters \cup {" ", "-", "'"}

HasError(contact, field, message) ==
    \E i \in DOMAIN contact.errors :
        contact.errors[i] = [field |-> field, message |-> message]

NameAsClaimed(contact, field, given, stored) ==
    /\ Trimmed(given) = <<>> <=> HasError(contact, field, "Name cannot be empty")
    /\ (Trimmed(given) # <<>> /\ ~NameCharsOnly(Trimmed(given)))
         <=> HasError(contact, field,
                "Name must only contain letters, spaces, hyphens, or apostrophes")
    /\ contact.ok => /\ stored = Trimmed(given)
                      /\ stored # <<>>
                      /\ NameCharsOnly(stored)

\* C13: a Contact is accepted only if first and last, trimmed, are
\* non-empty and made of letters, spaces, hyphens and apostrophes; the
\* stored name is the trimmed one; an empty or whitespace-only name is
\* rejected with "Name cannot be empty", any other character with "Name
\* must only contain letters, spaces, hyphens, or apostrophes".
C13_NameValidation ==
    \A i \in DOMAIN issued :
        /\ NameAsClaimed(issued[i].contact, "first", issued[i].body.first,
                         issued[i].contact.first)
        /\ NameAsClaimed(issued[i].contact, "last", issued[i].body.last,
                         issued[i].contact.last)

\* A name with surrounding whitespace and an inner hyphen was accepted and
\* stored trimmed.
C13_Witness ==
    \E i \in DOMAIN issued :
        /\ issued[i].contact.ok
        /\ issued[i].body.first = <<" ", "a", "-">>
        /\ issued[i].contact.first = <<"a", "-">>

----------------------------------------------------------------------------
(* C14 *)

\* local@domain.tld: one "@", a non-empty local part, a non-empty domain
\* before the last ".", and a top-level domain of two or more letters
WellShaped(s) ==
    LET ats == {i \in DOMAIN s : s[i] = "@"}
        at == CHOOSE i \in ats : TRUE
        dots == {i \in DOMAIN s : s[i] = "." /\ i > at}
        dot == CHOOSE i \in dots : \A j \in dots : j <= i
    IN /\ Cardinality(ats) = 1
       /\ dots # {}
       /\ at > 1
       /\ \A i \in 1 .. at - 1 :
             s[i] \in AsciiLetters \cup Digits \cup {".", "_", "%", "+", "-"}
       /\ dot > at + 1
       /\ \A i \in at + 1 .. dot - 1 :
             s[i] \in AsciiLetters \cup Digits \cup {".", "-"}
       /\ Len(s) >= dot + 2
       /\ \A i \in dot + 1 .. Len(s) : s[i] \in AsciiLetters

\* The entries of a list of strings, trimmed, without the empty ones
RECURSIVE KeptEntries(_)
KeptEntries(entries) ==
    IF entries = <<>> THEN <<>>
    ELSE (IF Trimmed(Head(entries)) = <<>> THEN <<>>
          ELSE <<Trimmed(Head(entries))>>) \o KeptEntries(Tail(entries))

EmailStringsOf(body) == [i \in DOMAIN body.emails |-> body.emails[i].address]

\* C14: of a list of e-mail strings every entry is trimmed and the empty
\* ones are dropped; if every remaining entry has the shape
\* local@domain.tld the addresses are stored in the same order, trimmed
\* and lower-cased, and otherwise the contact is rejected with an "Invalid
\* email address" error.
C14_EmailValidation ==
    \A i \in DOMAIN issued :
        (\A k \in DOMAIN issued[i].body.emails :
            issued[i].body.emails[k].form = "str")
        => LET kept == KeptEntries(EmailStringsOf(issued[i].body))
               contact == issued[i].contact
           IN IF \A k \in DOMAIN kept : WellShaped(kept[k])
              THEN /\ \A e \in DOMAIN contact.errors :
                         contact.errors[e].field # "emails"
                   /\ Len(contact.emails) = Len(kept)
                   /\ \A k \in DOMAIN kept :
                         contact.emails[k].address = lower(kept[k])
              ELSE /\ ~contact.ok
                   /\ HasError(contact, "emails", "Invalid email address")

\* A padded upper-case address, a blank entry and a plain address: two
\* addresses stored, in order, lower-cased.
C14_Witness ==
    \E i \in DOMAIN issued :
        /\ issued[i].body.emails
              = <<AsString(AddrAUpper), AsString(<<" ">>),
                  AsString(<<" ", "C", "@", "b", ".", "c", "d">>)>>
        /\ issued[i].contact.ok
        /\ Len(issued[i].contact.emails) = 2
        /\ issued[i].contact.emails[1].address = AddrA
        /\ issued[i].contact.emails[2].address = <<"c", "@", "b", ".", "c", "d">>

----------------------------------------------------------------------------
(* C15 *)

PhoneCharsOnly(s) ==
    \A i \in DOMAIN s : s[i] \in Digits \cup {" ", "-", "(", ")"}

\* C15: of a list of phone strings every entry is trimmed and the empty
\* ones are dropped; the contact is rejected with "Phone number must only
\* contain digits, spaces, hyphens, or parentheses" exactly when a
\* non-empty entry holds another character; accepted entries are stored
\* trimmed, in order.
C15_PhoneValidation ==
    \A i \in DOMAIN issued :
        LET kept == KeptEntries(issued[i].body.phone)
            contact == issued[i].contact
        IN /\ (\E k \in DOMAIN kept : ~PhoneCharsOnly(kept[k]))
                <=> HasError(contact, "phone",
                      "Phone number must only contain digits, spaces, hyphens, or parentheses")
           /\ contact.ok => contact.phone = kept

\* A blank entry was dropped and a padded one stored trimmed.
C15_Witness ==
    \E i \in DOMAIN issued :
        /\ issued[i].body.phone = << <<" ">>, <<"1", " ">> >>
        /\ issued[i].contact.ok
        /\ issued[i].contact.phone = << <<"1">> >>

----------------------------------------------------------------------------
(* C18 *)

\* C18 (as claimed): the id a draft save has returned identifies the stored
\* draft: the store working, an update_message with that id goes on to
\* update_one or answers "Draft updated successfully", and a delete_message
\* with it goes on to delete_one, whose answer is "Draft deleted
\* successfully".
C18_ReturnedDraftIdIdentifies ==
    [][\A p \in Procs : \A message_id \in ReturnedDraftIds :
         /\ ( /\ \E message_data \in UpdateBodies :
                    update_message(p, message_id, message_data)
              /\ proc'[p].resp.req.raised = "none" )
            => \/ proc'[p].pc = "m_update"
               \/ proc'[p].resp.message = "Draft updated successfully"
         /\ ( /\ delete_message(p, message_id)
              /\ proc'[p].resp.req.raised = "none" )
            => proc'[p].pc = "m_delete"]_vars

----------------------------------------------------------------------------
(* C19, C20 *)

\* The answered send_email_message calls
Answered(p) == proc[p].pc = "respond" /\ proc[p].op = "send_email_message"

\* main.py:374-379: the three field checks let the request through
FieldChecksPass(req) ==
    /\ req.contact_id # NoPath
    /\ req.email # Missing
    /\ strip(req.body) # <<>>

\* main.py:382-384: find_one returned the contact
ContactCheckPasses(req) == req.matched /\ req.raised # "find_one"

\* The steps of the handler in the order the code takes them
SendThenInsert ==
    \A p \in Procs :
        /\ email_messenger_send_email(p)
              => /\ ~proc[p].req.is_draft
                 /\ proc[p].req.sends = 0
                 /\ messages_collection' = messages_collection
        /\ ( /\ send_email_message_insert_one(p)
             /\ messages_collection' # messages_collection
             /\ ~proc[p].req.is_draft )
              => proc[p].req.sends = 1

\* C19 (as claimed): a call with is_draft true never invokes send_email; a
\* call with is_draft false whose field and contact checks pass invokes it
\* exactly once; the record is inserted only after the send has returned.
C19_SendsOnce ==
    [][/\ \A p \in Procs :
            ( proc'[p].pc = "respond" /\ proc'[p].op = "send_email_message" )
            => /\ proc'[p].resp.req.is_draft => proc'[p].resp.req.sends = 0
               /\ ( /\ ~proc'[p].resp.req.is_draft
                    /\ FieldChecksPass(proc'[p].resp.req)
                    /\ ContactCheckPasses(proc'[p].resp.req) )
                    => proc'[p].resp.req.sends = 1
       /\ SendThenInsert]_vars

\* C19 (amended): as C19, for the calls whose email is not blank once the
\* surrounding whitespace is removed, which are those the Message record
\* accepts.
C19_SendsOnceWhenMessageValid ==
    [][/\ \A p \in Procs :
            ( proc'[p].pc = "respond" /\ proc'[p].op = "send_email_message" )
            => /\ proc'[p].resp.req.is_draft => proc'[p].resp.req.sends = 0
               /\ ( /\ ~proc'[p].resp.req.is_draft
                    /\ FieldChecksPass(proc'[p].resp.req)
                    /\ ContactCheckPasses(proc'[p].resp.req)
                    /\ strip(proc'[p].resp.req.email) # <<>> )
                    => proc'[p].resp.req.sends = 1
       /\ SendThenInsert]_vars

\* A call with is_draft false has sent once and then stored its record, and
\* a call with a blank email has been answered "Validation failed".
C19_Witness ==
    /\ \E p \in Procs :
            /\ Answered(p)
            /\ ~proc[p].resp.req.is_draft
            /\ proc[p].resp.req.sends = 1
            /\ proc[p].resp.req.inserts = 1
            /\ proc[p].resp.message = "Email sent successfully"
    /\ Len(messages_collection) = Len(SeedMessages) + 1

\* The errors of the rejections C20 names
Rejections ==
    {"contact_id is required", "email is required", "body cannot be empty",
     "Contact not found"}

\* No step of the handler touches the users or the emails collection, and
\* only insert_one touches the messages collection
HandlerFrame ==
    \A p \in Procs :
        /\ ( \/ \E message_data \in EmailBodies :
                    \/ send_email_message(p, message_data)
                    \/ save_email_draft(p, message_data)
             \/ email_messenger_send_email(p) )
              => UNCHANGED <<user_collection, emails_Collection,
                             messages_collection>>
        /\ send_email_message_insert_one(p)
              => UNCHANGED <<user_collection, emails_Collection>>

----------------------------------------------------------------------------
(* C21 *)

\* The record after is the record before with the fields of the request set
\* and nothing else changed
SetOnly(before, after, fields) ==
    /\ DOMAIN after = DOMAIN before
    /\ \A f \in DOMAIN before :
          after[f] = IF f \in DOMAIN fields THEN fields[f] ELSE before[f]

\* C21: the update_one of a successful update_message sets, on the draft
\* message_id names, the fields among subject, body and recipient that the
\* request carries and changes nothing else of it (status, type, direction,
\* timestamp and identifier stay as they were) nor any other message; the
\* fields it sets are among those three and are absent from the request
\* never; a request naming none of the three leaves the collection as it was
\* and is answered without a write.
C21_UpdateFrame ==
    [][\A p \in Procs :
         /\ ( /\ update_message_update_one(p)
              /\ proc'[p].resp.message = "Draft updated successfully" )
            => /\ Len(messages_collection') = Len(messages_collection)
               /\ \A f \in DOMAIN update_fields(proc[p].message_data) :
                     /\ f \in {"subject", "body", "recipient"}
                     /\ proc[p].message_data[f] # Missing
               /\ \A i \in DOMAIN messages_collection :
                     IF /\ Matching(messages_collection, proc[p].message_id) # {}
                        /\ i = FirstMatch(messages_collection, proc[p].message_id)
                     THEN /\ messages_collection[i].status = "draft"
                          /\ SetOnly(messages_collection[i],
                                     messages_collection'[i],
                                     [f \in {f \in {"subject", "body", "recipient"} :
                                                proc[p].message_data[f] # Missing}
                                        |-> proc[p].message_data[f]])
                     ELSE messages_collection'[i] = messages_collection[i]
         /\ \A message_id \in MessageIds : \A message_data \in UpdateBodies :
              update_message(p, message_id, message_data)
                => /\ messages_collection' = messages_collection
                   /\ ( \A f \in {"subject", "body", "recipient"} :
                            message_data[f] = Missing )
                        => proc'[p].pc = "respond"]_vars

\* An update carrying only a body has been answered: the draft has the new
\* body, its subject, recipient, status, type, direction and timestamp are
\* those it was stored with, and the other two messages are as they were.
C21_Witness ==
    \E p \in Procs :
        /\ proc[p].pc = "respond"
        /\ proc[p].op = "update_message"
        /\ proc[p].resp.message = "Draft updated successfully"
        /\ Len(messages_collection) = Len(SeedMessages)
        /\ messages_collection[1] =
              [SeedMessage(SeedId(1), "draft") EXCEPT !.body = Edited]
        /\ messages_collection[2] = SeedMessages[2]
        /\ messages_collection[3] = SeedMessages[3]

----------------------------------------------------------------------------
(* SpecPhone: PhoneNumber and the messengers' URI functions over families   *)
(* of phone strings: the shapes PHONE_PATTERN describes, with and without   *)
(* each optional part, shapes one character away from them, and short       *)
(* strings.                                                                 *)

Join(parts) ==
    parts[1] \o parts[2] \o parts[3] \o parts[4] \o parts[5] \o parts[6]
        \o parts[7] \o parts[8] \o parts[9] \o parts[10] \o parts[11]

ShapedPhones ==
    { Join(parts) : parts \in
        {<<>>, <<" ">>}                                 \* stripped by __init__
        \X {<<>>, <<"+">>}
        \X {<<>>, <<"1">>}
        \X {<<>>, <<" ">>}
        \X {<<>>, <<"(">>}
        \X {<<"2", "3", "4">>, <<"1", "2", "3">>}
        \X {<<>>, <<")">>}
        \X {<<>>, <<"-">>, <<" ">>}
        \X {<<"5", "6", "7">>}
        \X {<<>>, <<".">>}
        \X {<<"8", "9", "0", "1">>, <<"8", "9", "0">>, <<"8", "a", "0", "1">>} }

ShortPhones == Strings({"a", "1", "+", " "}, 2)

PhoneTexts == ShapedPhones \cup ShortPhones

SmsTexts == {<<>>, <<"h", "i">>, <<"h", " ", "i">>}

InitPhone ==
    /\ _counter = 0
    /\ now = 0
    /\ issued = <<>>
    /\ StoreInit

\* PhoneNumber(phone) and its properties
ConstructPhoneNumber ==
    /\ issued = <<>>
    /\ \E phone \in PhoneTexts \ {<<>>} :
       \E phone_obj \in {PhoneNumber(phone)} :
        /\ issued' = <<[op |-> "PhoneNumber", phone |-> phone, message |-> <<>>,
                        is_valid |-> is_valid(phone_obj),
                        e164 |-> phone_obj._e164,
                        call_uri |-> get_call_uri(phone_obj),
                        sms_uri |-> get_sms_uri(phone_obj, <<>>)]>>
        /\ UNCHANGED <<_counter, now>>
        /\ StoreUnchanged

CallGetMobileSmsUri ==
    /\ issued = <<>>
    /\ \E phone \in PhoneTexts : \E message \in SmsTexts :
        /\ issued' = <<[op |-> "get_mobile_sms_uri", phone |-> phone,
                        message |-> message,
                        result |-> get_mobile_sms_uri(phone, message)]>>
        /\ UNCHANGED <<_counter, now>>
        /\ StoreUnchanged

CallGetMobileCallUri ==
    /\ issued = <<>>
    /\ \E phone \in PhoneTexts :
        /\ issued' = <<[op |-> "get_mobile_call_uri", phone |-> phone,
                        message |-> <<>>,
                        result |-> get_mobile_call_uri(phone)]>>
        /\ UNCHANGED <<_counter, now>>
        /\ StoreUnchanged

CallInitiateCall ==
    /\ issued = <<>>
    /\ \E phone \in PhoneTexts :
        /\ issued' = <<[op |-> "initiate_call", phone |-> phone,
                        message |-> <<>>,
                        result |-> initiate_call(phone)]>>
        /\ UNCHANGED <<_counter, now>>
        /\ StoreUnchanged

NextPhone ==
    \/ ConstructPhoneNumber
    \/ CallGetMobileSmsUri
    \/ CallGetMobileCallUri
    \/ CallInitiateCall

SpecPhone == InitPhone /\ [][NextPhone]_vars

----------------------------------------------------------------------------
(* C23 *)

\* PhoneNumber.is_valid is false of the phone string, or there is no
\* PhoneNumber of it
NotAValidPhone(phone) == phone = <<>> \/ ~is_valid(PhoneNumber(phone))

\* C23 (as claimed): for every phone string that is not a valid phone
\* number, get_mobile_sms_uri, get_mobile_call_uri and initiate_call return
\* success false with the error "Invalid phone number" and no URI.
C23_InvalidPhoneRejected ==
    \A k \in DOMAIN issued :
        ( /\ issued[k].op \in {"get_mobile_sms_uri", "get_mobile_call_uri",
                               "initiate_call"}
          /\ NotAValidPhone(issued[k].phone) )
        => /\ ~issued[k].result.success
           /\ issued[k].result.error = "Invalid phone number"
           /\ issued[k].result.uri = NoUri

----------------------------------------------------------------------------
(* C24 *)

\* The last ten digits of the phone string
TenDigits(phone) ==
    SubSeq(SelectSeq(phone, isdigit), Len(SelectSeq(phone, isdigit)) - 9,
           Len(SelectSeq(phone, isdigit)))

\* C24: for every phone string PhoneNumber.is_valid accepts, e164 is "+1"
\* followed by the ten digits of the number, get_call_uri is "tel:" followed
\* by e164 and get_sms_uri with an empty message is "sms:" followed by e164
\* and nothing more.
C24_E164AndUris ==
    \A k \in DOMAIN issued :
        ( issued[k].op = "PhoneNumber" /\ issued[k].is_valid )
        => /\ Len(TenDigits(issued[k].phone)) = 10
           /\ AllIn(TenDigits(issued[k].phone), Digits)
           /\ issued[k].e164 = <<"+", "1">> \o TenDigits(issued[k].phone)
           /\ issued[k].call_uri = <<"t", "e", "l", ":">> \o issued[k].e164
           /\ issued[k].sms_uri = <<"s", "m", "s", ":">> \o issued[k].e164

\* A number written without a country code, with parentheses and
\* separators, has been accepted and brought to "+1" and its ten digits.
C24_Witness ==
    \E k \in DOMAIN issued :
        /\ issued[k].op = "PhoneNumber"
        /\ issued[k].phone = <<"(", "2", "3", "4", ")", "-", "5", "6", "7", ".",
                               "8", "9", "0", "1">>
        /\ issued[k].is_valid
        /\ issued[k].e164 = <<"+", "1", "2", "3", "4", "5", "6", "7", "8", "9",
                              "0", "1">>

----------------------------------------------------------------------------
(* C22 *)

----------------------------------------------------------------------------
(* SpecGather: contacts with e-mail addresses are created, over a users     *)
(* collection that is empty or already holds as many contacts as            *)
(* gatherEmailAddresses reads, and the background tasks run with the store  *)
(* answering every call of theirs.  A response that is ready is sent and a  *)
(* task that can take a step takes it (weak fairness per request); no       *)
(* request is bound to arrive.                                              *)

\* A stored contact without e-mail addresses
StoredContact(k) == [SeedContact EXCEPT !._id = SeedId(k), !.emails = <<>>]

\* As many stored contacts as to_list(100) returns
FullUsers == [k \in 1 .. ToListLimit |-> StoredContact(k)]

InitGather ==
    /\ _counter = 0
    /\ now = 0
    /\ issued = <<>>
    /\ user_collection \in {<<>>, FullUsers}
    /\ emails_Collection = <<>>
    /\ messages_collection = <<>>
    /\ proc = [p \in Procs |-> IdleProc]
    /\ nreq = 0

\* The steps of gatherEmailAddresses in which the store raises nothing
GatherFindUsersAnswered(p) == GatherFindUsers(p) /\ proc'[p].pc = "g_emails"

GatherFindEmailsAnswered(p) == GatherFindEmails(p) /\ proc'[p].pc = "g_insert"

GatherInsertAnswered(p) ==
    /\ GatherInsert(p)
    /\ emails_Collection' =
         insert_many(emails_Collection,
                     new_email_docs(proc[p].users_seen,
                                    proc[p].emails_seen)).coll

\* What the server does for a request it has accepted
ServerStep(p) ==
    \/ SendResponse(p)
    \/ GatherFindUsersAnswered(p)
    \/ GatherFindEmailsAnswered(p)
    \/ GatherInsertAnswered(p)
    \/ TaskOver(p)

NextGather ==
    \E p \in Procs :
        \/ \E body \in ValidBodies : createContact(p, body)
        \/ ServerStep(p)

SpecGather ==
    /\ InitGather
    /\ [][NextGather]_vars
    /\ \A p \in Procs : WF_vars(ServerStep(p))

----------------------------------------------------------------------------
(* C25 *)

\* A contact with e-mail addresses has just been created by p
CreatedWithEmails(p) ==
    /\ proc[p].pc = "respond"
    /\ proc[p].resp.message = "Contact created successfully"
    /\ user_collection # <<>>
    /\ user_collection[Len(user_collection)].emails # <<>>

\* Every e-mail address of every stored contact is in the emails collection
\* (as gatherEmailAddresses compares addresses: trimmed, in lower case)
AllGathered ==
    \A i \in DOMAIN user_collection :
    \A j \in DOMAIN user_collection[i].emails :
    \E k \in DOMAIN emails_Collection :
        NormalAddress(emails_Collection[k])
            = NormalAddress(user_collection[i].emails[j])

\* C25 (as claimed, the store raising nothing): once a contact with e-mail
\* addresses has been created, the system reaches a state in which every
\* e-mail address of the stored contacts is in the emails collection,
\* however many contacts were stored before.
C25_EventuallyGathered ==
    (\E p \in Procs : CreatedWithEmails(p)) ~> AllGathered

----------------------------------------------------------------------------
(* C26 *)

====
